---- MODULE Spec2Model ----
(***************************************************************************)
(* Device binding registry and location relay of the blind-assistant       *)
(* backend (src/index.js).  The key-value store holds four trees:          *)
(*   device-user/<deviceId>        -> userId      (reverse binding)        *)
(*   users/<userId>/deviceId       -> deviceId    (forward binding)        *)
(*   users/<userId>/locationRequest-> true | null (location request flag)  *)
(*   devices/<deviceId>            -> pushed list of {lat, lng, time}      *)
(*   users/<userId>/detectedFaces  -> list of labels (null = empty list)   *)
(* The document store holds the User documents {userId, faces}, each face  *)
(* a sub-document {_id, label, descriptions}.                              *)
(* Every route handler is an async function: it runs without preemption    *)
(* from one await to the next, and other handlers may run while it is      *)
(* suspended in an await.  Store writes are issued one after another, so   *)
(* a reader of the store can see the state between two writes.             *)
(***************************************************************************)
EXTENDS Naturals, Integers, Sequences, FiniteSets, TLC

\* ---------------------------------------------------------------- bounds
MaxInFlight == 2     \* request handlers that can be in flight together
MaxReports  == 2     \* location reports accepted in one run, all devices
MaxFaces    == 2     \* faces enrolled in one run, all users

\* ------------------------------------------------------------ input sets
Users        == {"user1", "user2"}
ValidIds     == {"AB12CD", "XY34ZW", "QW56ER"}
BadLengthIds == {"AB12C", "AB12CDE"}
NewDeviceIds == ValidIds \cup BadLengthIds
QueryIds     == ValidIds \cup {"AB12C", ""}
Lats         == {41, 42}
Lngs         == {29}
Handlers     == 1..MaxInFlight
Labels       == {"Alice", "Bob"}
\* an image is the list of the face descriptors the detector finds in it; a
\* descriptor is a point on a line, in units of 0.1
Samples      == { << <<0>>, <<0>>, <<0>> >>, << <<0>>, <<>>, <<0>> >> }
Probes       == { <<>>, <<0>>, <<13, 6>> }

Null == "null"
True == "true"

\* ------------------------------------------------------------- responses
DeviceIdLength == 6
DefaultStatus  == 500

ExpressError(message, statusCode) == [status |-> statusCode, message |-> message]

ErrorResponse(message) == ExpressError(message, DefaultStatus)

Ok(message) == [status |-> 200, message |-> message]

NoResponse == [status |-> 0, message |-> ""]

VARIABLES
    deviceUser,        \* device-user/<deviceId>
    userDevice,        \* users/<userId>/deviceId
    locationRequest,   \* users/<userId>/locationRequest
    devices,           \* devices/<deviceId>: the pushed reports, in push order
    now,               \* the server clock read by Timestamp.now()
    reqs,              \* the request each handler slot is serving, with its locals
    pre,               \* history: the store as it was when the request in service arrived
    detectedFaces,     \* users/<userId>/detectedFaces
    userDocs,          \* the User documents, in insertion order
    nextFaceId         \* the next fresh _id of a face sub-document

vars == <<deviceUser, userDevice, locationRequest, devices, now, reqs, pre,
          detectedFaces, userDocs, nextFaceId>>

store == <<deviceUser, userDevice, locationRequest, devices>>

faceStore == <<detectedFaces, userDocs, nextFaceId>>

\* ---------------------------------------------------------- store access
Exists(v) == v # Null

DeviceUserAt(d) == IF d \in DOMAIN deviceUser THEN deviceUser[d] ELSE Null

Snapshot == [deviceUser |-> deviceUser, userDevice |-> userDevice,
             locationRequest |-> locationRequest, devices |-> devices,
             detectedFaces |-> detectedFaces, userDocs |-> userDocs]

EmptyStore == [deviceUser |-> [d \in ValidIds |-> Null],
               userDevice |-> [u \in Users |-> Null],
               locationRequest |-> [u \in Users |-> Null],
               devices |-> [d \in ValidIds |-> <<>>],
               detectedFaces |-> [u \in Users |-> <<>>],
               userDocs |-> <<>>]

RECURSIVE SumLen(_, _)
SumLen(f, S) == IF S = {} THEN 0
                ELSE LET d == CHOOSE x \in S : TRUE
                     IN  Len(f[d]) + SumLen(f, S \ {d})

TotalReports == SumLen(devices, ValidIds)

\* -------------------------------------------------------- handler slots
\* wasFree is history: whether the target device id had no owner when the
\* request arrived
IdleReq == [op |-> "none", pc |-> "idle", uid |-> Null, deviceId |-> "",
            val |-> Null, lat |-> 0, lng |-> 0, time |-> 0, wasFree |-> FALSE,
            label |-> "", images |-> <<>>, faceId |-> 0, doc |-> 0, out |-> <<>>,
            res |-> NoResponse]

SyncPcs == {"clearOld", "setForward", "setReverse", "push", "removeRequest"}

\* a handler that is between two awaits is not preempted by another handler
MayRun(h) == \A g \in Handlers \ {h} : reqs[g].pc \notin SyncPcs

Respond(h, response) == reqs' = [reqs EXCEPT ![h].pc = "done", ![h].res = response]

Init ==
    /\ deviceUser = EmptyStore.deviceUser
    /\ userDevice = EmptyStore.userDevice
    /\ locationRequest = EmptyStore.locationRequest
    /\ devices = EmptyStore.devices
    /\ now = 0
    /\ reqs = [h \in Handlers |-> IdleReq]
    /\ pre = EmptyStore
    /\ detectedFaces = EmptyStore.detectedFaces
    /\ userDocs = EmptyStore.userDocs
    /\ nextFaceId = 1

\* ------------------------------------------------ POST /deviceId (Rebind)
\* faulty variant: the length check only refuses ids that are too short
RebindStart_MinLength(h, u, nd) ==
    /\ reqs[h].pc = "idle"
    /\ MayRun(h)
    /\ LET r == [IdleReq EXCEPT !.op = "rebind", !.uid = u, !.deviceId = nd,
                                !.wasFree = ~Exists(DeviceUserAt(nd))]
       IN  IF Len(nd) < DeviceIdLength
           THEN reqs' = [reqs EXCEPT ![h] =
                    [r EXCEPT !.pc = "done",
                              !.res = ErrorResponse("Device id must be 6 characters!")]]
           ELSE reqs' = [reqs EXCEPT ![h] = [r EXCEPT !.pc = "isOwned"]]
    /\ UNCHANGED <<store, now, faceStore>>

RebindStart(h, u, nd) ==
    /\ reqs[h].pc = "idle"
    /\ MayRun(h)
    /\ LET r == [IdleReq EXCEPT !.op = "rebind", !.uid = u, !.deviceId = nd,
                                !.wasFree = ~Exists(DeviceUserAt(nd))]
       IN  IF Len(nd) # DeviceIdLength
           THEN reqs' = [reqs EXCEPT ![h] =
                    [r EXCEPT !.pc = "done",
                              !.res = ErrorResponse("Device id must be 6 characters!")]]
           ELSE reqs' = [reqs EXCEPT ![h] = [r EXCEPT !.pc = "isOwned"]]
    /\ UNCHANGED <<store, now, faceStore>>

\* faulty variant: the caller's own device id is not taken as owned
RebindIsOwned_OwnerPasses(h) ==
    /\ reqs[h].pc = "isOwned"
    /\ MayRun(h)
    /\ IF /\ Exists(DeviceUserAt(reqs[h].deviceId))
          /\ DeviceUserAt(reqs[h].deviceId) # reqs[h].uid
       THEN Respond(h, ExpressError("This id is already owned!", 409))
       ELSE reqs' = [reqs EXCEPT ![h].pc = "olderDeviceId"]
    /\ UNCHANGED <<store, now, pre, faceStore>>

\* faulty variant: the ownership check is missing
RebindIsOwned_Unchecked(h) ==
    /\ reqs[h].pc = "isOwned"
    /\ MayRun(h)
    /\ reqs' = [reqs EXCEPT ![h].pc = "olderDeviceId"]
    /\ UNCHANGED <<store, now, pre, faceStore>>

RebindIsOwned(h) ==
    /\ reqs[h].pc = "isOwned"
    /\ MayRun(h)
    /\ IF Exists(DeviceUserAt(reqs[h].deviceId))
       THEN Respond(h, ExpressError("This id is already owned!", 409))
       ELSE reqs' = [reqs EXCEPT ![h].pc = "olderDeviceId"]
    /\ UNCHANGED <<store, now, pre, faceStore>>

\* faulty variant: the old device id is read but its ownership is never removed
RebindOlderDeviceId_NoClear(h) ==
    /\ reqs[h].pc = "olderDeviceId"
    /\ MayRun(h)
    /\ reqs' = [reqs EXCEPT ![h].val = userDevice[reqs[h].uid],
                            ![h].pc = "setForward"]
    /\ UNCHANGED <<store, now, pre, faceStore>>

RebindOlderDeviceId(h) ==
    /\ reqs[h].pc = "olderDeviceId"
    /\ MayRun(h)
    /\ reqs' = [reqs EXCEPT ![h].val = userDevice[reqs[h].uid],
                            ![h].pc = IF Exists(userDevice[reqs[h].uid])
                                      THEN "clearOld" ELSE "setForward"]
    /\ UNCHANGED <<store, now, pre, faceStore>>

\* faulty variant: the write that removes the old ownership is lost
RebindClearOld_Skipped(h) ==
    /\ reqs[h].pc = "clearOld"
    /\ reqs' = [reqs EXCEPT ![h].pc = "setForward"]
    /\ UNCHANGED <<store, now, pre, faceStore>>

\* faulty variant: the ownership of the new device id is cleared instead of the old one
RebindClearOld_NewKey(h) ==
    /\ reqs[h].pc = "clearOld"
    /\ deviceUser' = [deviceUser EXCEPT ![reqs[h].deviceId] = Null]
    /\ reqs' = [reqs EXCEPT ![h].pc = "setForward"]
    /\ UNCHANGED <<userDevice, locationRequest, devices, now, pre, faceStore>>

RebindClearOld(h) ==
    /\ reqs[h].pc = "clearOld"
    /\ deviceUser' = [deviceUser EXCEPT ![reqs[h].val] = Null]
    /\ reqs' = [reqs EXCEPT ![h].pc = "setForward"]
    /\ UNCHANGED <<userDevice, locationRequest, devices, now, pre, faceStore>>

RebindSetForward(h) ==
    /\ reqs[h].pc = "setForward"
    /\ userDevice' = [userDevice EXCEPT ![reqs[h].uid] = reqs[h].deviceId]
    /\ reqs' = [reqs EXCEPT ![h].pc = "setReverse"]
    /\ UNCHANGED <<deviceUser, locationRequest, devices, now, pre, faceStore>>

RebindSetReverse(h) ==
    /\ reqs[h].pc = "setReverse"
    /\ deviceUser' = [deviceUser EXCEPT ![reqs[h].deviceId] = reqs[h].uid]
    /\ Respond(h, Ok("Successfully updated"))
    /\ UNCHANGED <<userDevice, locationRequest, devices, now, pre, faceStore>>

\* ------------------------- GET /set-location-request (RequestLocation)
SetLocationRequestStart(h, d) ==
    /\ reqs[h].pc = "idle"
    /\ MayRun(h)
    /\ LET r == [IdleReq EXCEPT !.op = "setLocationRequest", !.deviceId = d]
       IN  IF d = ""
           THEN reqs' = [reqs EXCEPT ![h] =
                    [r EXCEPT !.pc = "done",
                              !.res = ErrorResponse("You must provide a device id!")]]
           ELSE reqs' = [reqs EXCEPT ![h] = [r EXCEPT !.pc = "fetchUserId"]]
    /\ UNCHANGED <<store, now, faceStore>>

\* faulty variant: the existence check of the looked-up user id is missing
SetLocationRequestFetchUserId_Unchecked(h) ==
    /\ reqs[h].pc = "fetchUserId"
    /\ MayRun(h)
    /\ LET userId == DeviceUserAt(reqs[h].deviceId)
       IN  /\ locationRequest' =
                 [u \in Users |-> IF u = userId THEN True ELSE locationRequest[u]]
           /\ reqs' = [reqs EXCEPT ![h].val = userId, ![h].pc = "done",
                                   ![h].res = Ok("Successful")]
    /\ UNCHANGED <<deviceUser, userDevice, devices, now, pre, faceStore>>

\* faulty variant: the flag is flipped instead of set
SetLocationRequestFetchUserId_Toggle(h) ==
    /\ reqs[h].pc = "fetchUserId"
    /\ MayRun(h)
    /\ LET userId == DeviceUserAt(reqs[h].deviceId)
       IN  IF ~Exists(userId)
           THEN /\ Respond(h, ExpressError("No user found with this device id!", 404))
                /\ UNCHANGED locationRequest
           ELSE /\ locationRequest' = [locationRequest EXCEPT ![userId] =
                                         IF @ = True THEN Null ELSE True]
                /\ reqs' = [reqs EXCEPT ![h].val = userId, ![h].pc = "done",
                                        ![h].res = Ok("Successful")]
    /\ UNCHANGED <<deviceUser, userDevice, devices, now, pre, faceStore>>

SetLocationRequestFetchUserId(h) ==
    /\ reqs[h].pc = "fetchUserId"
    /\ MayRun(h)
    /\ LET userId == DeviceUserAt(reqs[h].deviceId)
       IN  IF ~Exists(userId)
           THEN /\ Respond(h, ExpressError("No user found with this device id!", 404))
                /\ UNCHANGED locationRequest
           ELSE /\ locationRequest' = [locationRequest EXCEPT ![userId] = True]
                /\ reqs' = [reqs EXCEPT ![h].val = userId, ![h].pc = "done",
                                        ![h].res = Ok("Successful")]
    /\ UNCHANGED <<deviceUser, userDevice, devices, now, pre, faceStore>>

\* ---------------------------------------- POST /location (ReportLocation)
LocationStart(h, u, lat, lng) ==
    /\ reqs[h].pc = "idle"
    /\ MayRun(h)
    /\ TotalReports < MaxReports
    /\ reqs' = [reqs EXCEPT ![h] =
                  [IdleReq EXCEPT !.op = "location", !.uid = u, !.lat = lat,
                                  !.lng = lng, !.pc = "fetchDeviceId"]]
    /\ UNCHANGED <<store, now, faceStore>>

\* faulty variant: the existence check of the user's device id is missing
LocationFetchDeviceId_Unchecked(h) ==
    /\ reqs[h].pc = "fetchDeviceId"
    /\ MayRun(h)
    /\ reqs' = [reqs EXCEPT ![h].val = userDevice[reqs[h].uid], ![h].pc = "push"]
    /\ UNCHANGED <<store, now, pre, faceStore>>

LocationFetchDeviceId(h) ==
    /\ reqs[h].pc = "fetchDeviceId"
    /\ MayRun(h)
    /\ IF ~Exists(userDevice[reqs[h].uid])
       THEN Respond(h, ExpressError("You don't have a device id!", 404))
       ELSE reqs' = [reqs EXCEPT ![h].val = userDevice[reqs[h].uid], ![h].pc = "push"]
    /\ UNCHANGED <<store, now, pre, faceStore>>

\* faulty variant: the new report is put in front of the list
Push_Front(list, location) == <<location>> \o list

Push(list, location) == Append(list, location)

LocationPush(h) ==
    /\ reqs[h].pc = "push"
    /\ LET location == [lat |-> reqs[h].lat, lng |-> reqs[h].lng, time |-> now]
       IN  devices' = [devices EXCEPT ![reqs[h].val] = Push(@, location)]
    /\ now' = now + 1
    /\ reqs' = [reqs EXCEPT ![h].time = now, ![h].pc = "removeRequest"]
    /\ UNCHANGED <<deviceUser, userDevice, locationRequest, pre, faceStore>>

LocationRemoveRequest(h) ==
    /\ reqs[h].pc = "removeRequest"
    /\ locationRequest' = [locationRequest EXCEPT ![reqs[h].uid] = Null]
    /\ Respond(h, Ok("Location sent"))
    /\ UNCHANGED <<deviceUser, userDevice, devices, now, pre, faceStore>>

\* ------------------------------------------------------- document store
FindOne(userId) ==
    IF \E i \in 1..Len(userDocs) : userDocs[i].userId = userId
    THEN CHOOSE i \in 1..Len(userDocs) :
            /\ userDocs[i].userId = userId
            /\ \A j \in 1..(i - 1) : userDocs[j].userId # userId
    ELSE 0

NewUser(userId) == [userId |-> userId, faces |-> <<>>]

\* save() of a new document: the collection takes it as it is
Insert(docs, doc) == Append(docs, doc)

\* ------------------------------------------------ faceapi.FaceMatcher
DistanceThreshold == 6
Unknown == "unknown"

EuclideanDistance(a, b) == IF a >= b THEN a - b ELSE b - a

RECURSIVE SumDistance(_, _)
SumDistance(q, descriptors) ==
    IF descriptors = <<>> THEN 0
    ELSE EuclideanDistance(Head(descriptors), q) + SumDistance(q, Tail(descriptors))

\* the mean distance sum / n of a label, kept as the pair (sum, n)
ComputeMeanDistance(q, face) ==
    [label |-> face.label, sum |-> SumDistance(q, face.descriptions),
     n |-> IF Len(face.descriptions) = 0 THEN 1 ELSE Len(face.descriptions)]

MeanLess(a, b) == a.sum * b.n < b.sum * a.n

RECURSIVE Reduce(_, _)
Reduce(best, rest) ==
    IF rest = <<>> THEN best
    ELSE Reduce(IF MeanLess(best, Head(rest)) THEN best ELSE Head(rest), Tail(rest))

MatchDescriptor(faces, q) ==
    LET matches == [i \in 1..Len(faces) |-> ComputeMeanDistance(q, faces[i])]
    IN  Reduce(Head(matches), Tail(matches))

\* faulty variant: a best match at exactly the threshold is accepted
FindBestMatch_AtMost(faces, q) ==
    LET bestMatch == MatchDescriptor(faces, q)
    IN  IF bestMatch.sum <= DistanceThreshold * bestMatch.n
        THEN bestMatch.label ELSE Unknown

FindBestMatch(faces, q) ==
    LET bestMatch == MatchDescriptor(faces, q)
    IN  IF bestMatch.sum < DistanceThreshold * bestMatch.n
        THEN bestMatch.label ELSE Unknown

\* ------------------------------- POST /reset-detected-faces
\* faulty variant: the reset also removes the user's location request
ResetDetectedFaces_ClearsRequest(h, u) ==
    /\ reqs[h].pc = "idle"
    /\ MayRun(h)
    /\ detectedFaces' = [detectedFaces EXCEPT ![u] = <<>>]
    /\ locationRequest' = [locationRequest EXCEPT ![u] = Null]
    /\ reqs' = [reqs EXCEPT ![h] =
                  [IdleReq EXCEPT !.op = "resetDetectedFaces", !.uid = u,
                                  !.pc = "done", !.res = Ok("Successful")]]
    /\ UNCHANGED <<deviceUser, userDevice, devices, now, userDocs, nextFaceId>>

ResetDetectedFaces(h, u) ==
    /\ reqs[h].pc = "idle"
    /\ MayRun(h)
    /\ detectedFaces' = [detectedFaces EXCEPT ![u] = <<>>]
    /\ reqs' = [reqs EXCEPT ![h] =
                  [IdleReq EXCEPT !.op = "resetDetectedFaces", !.uid = u,
                                  !.pc = "done", !.res = Ok("Successful")]]
    /\ UNCHANGED <<store, now, userDocs, nextFaceId>>

\* ------------------------------- POST /recognise-face (RecogniseFace)
RecogniseStart(h, d, probe) ==
    /\ reqs[h].pc = "idle"
    /\ MayRun(h)
    /\ reqs' = [reqs EXCEPT ![h] =
                  [IdleReq EXCEPT !.op = "recognise", !.deviceId = d,
                                  !.images = probe, !.pc = "resolveUser"]]
    /\ UNCHANGED <<store, now, faceStore>>

RecogniseFetchUserId(h) ==
    /\ reqs[h].op = "recognise" /\ reqs[h].pc = "resolveUser"
    /\ MayRun(h)
    /\ reqs' = [reqs EXCEPT ![h].val = DeviceUserAt(reqs[h].deviceId),
                            ![h].pc = "findUser"]
    /\ UNCHANGED <<store, now, pre, faceStore>>

\* the matcher is built from the document as read here; the labels it gives
\* for the faces of the image are kept in out until they are written
RecogniseFindUser(h) ==
    /\ reqs[h].op = "recognise" /\ reqs[h].pc = "findUser"
    /\ MayRun(h)
    /\ LET i == FindOne(reqs[h].val)
       IN  IF i = 0
           THEN Respond(h, ExpressError("No user found.", 401))
           ELSE IF userDocs[i].faces = <<>>
           THEN Respond(h, ErrorResponse(
                    "FaceMatcher.constructor - expected atleast one input"))
           ELSE reqs' = [reqs EXCEPT
                    ![h].doc = i,
                    ![h].out = [k \in 1..Len(reqs[h].images) |->
                                   FindBestMatch(userDocs[i].faces, reqs[h].images[k])],
                    ![h].pc = "setDetectedFaces"]
    /\ UNCHANGED <<store, now, pre, faceStore>>

\* faulty variant: an empty label list leaves the previous value in place
RecogniseSetDetectedFaces_KeepOnEmpty(h) ==
    /\ reqs[h].op = "recognise" /\ reqs[h].pc = "setDetectedFaces"
    /\ MayRun(h)
    /\ detectedFaces' = IF reqs[h].out = <<>> THEN detectedFaces
                        ELSE [detectedFaces EXCEPT ![reqs[h].val] = reqs[h].out]
    /\ Respond(h, Ok("results"))
    /\ UNCHANGED <<store, now, pre, userDocs, nextFaceId>>

RecogniseSetDetectedFaces(h) ==
    /\ reqs[h].op = "recognise" /\ reqs[h].pc = "setDetectedFaces"
    /\ MayRun(h)
    /\ detectedFaces' = [detectedFaces EXCEPT ![reqs[h].val] = reqs[h].out]
    /\ Respond(h, Ok("results"))
    /\ UNCHANGED <<store, now, pre, userDocs, nextFaceId>>

\* ------------------------------- POST /new-face-base64 (EnrollFace)
EnrollStart(h, u, label, images) ==
    /\ reqs[h].pc = "idle"
    /\ MayRun(h)
    /\ nextFaceId <= MaxFaces
    /\ reqs' = [reqs EXCEPT ![h] =
                  [IdleReq EXCEPT !.op = "enroll", !.uid = u, !.label = label,
                                  !.images = images, !.pc = "findUser"]]
    /\ UNCHANGED <<store, now, faceStore>>

EnrollFindUser(h) ==
    /\ reqs[h].op = "enroll" /\ reqs[h].pc = "findUser"
    /\ MayRun(h)
    /\ LET i == FindOne(reqs[h].uid)
       IN  reqs' = [reqs EXCEPT ![h].doc = i,
                                ![h].pc = IF i = 0 THEN "createUser" ELSE "detect"]
    /\ UNCHANGED <<store, now, pre, faceStore>>

EnrollCreateUser(h) ==
    /\ reqs[h].op = "enroll" /\ reqs[h].pc = "createUser"
    /\ MayRun(h)
    /\ userDocs' = Insert(userDocs, NewUser(reqs[h].uid))
    /\ reqs' = [reqs EXCEPT ![h].doc = Len(userDocs) + 1, ![h].pc = "detect"]
    /\ UNCHANGED <<store, now, pre, detectedFaces, nextFaceId>>

\* detectSingleFace gives undefined for an image without a face, and reading
\* its descriptor throws
EnrollDetect(h) ==
    /\ reqs[h].op = "enroll" /\ reqs[h].pc = "detect"
    /\ MayRun(h)
    /\ IF \E k \in 1..Len(reqs[h].images) : reqs[h].images[k] = <<>>
       THEN /\ Respond(h, ErrorResponse(
                    "Cannot read properties of undefined (reading 'descriptor')"))
            /\ UNCHANGED nextFaceId
       ELSE /\ reqs' = [reqs EXCEPT
                    ![h].out = [k \in 1..Len(reqs[h].images) |-> Head(reqs[h].images[k])],
                    ![h].faceId = nextFaceId,
                    ![h].pc = "save"]
            /\ nextFaceId' = nextFaceId + 1
    /\ UNCHANGED <<store, now, pre, detectedFaces, userDocs>>

\* faulty variant: the new face replaces the faces the user had
EnrollSave_Replace(h) ==
    /\ reqs[h].op = "enroll" /\ reqs[h].pc = "save"
    /\ MayRun(h)
    /\ LET face == [id |-> reqs[h].faceId, label |-> reqs[h].label,
                    descriptions |-> reqs[h].out]
       IN  userDocs' = [userDocs EXCEPT ![reqs[h].doc].faces = <<face>>]
    /\ Respond(h, Ok("Successfully updated"))
    /\ UNCHANGED <<store, now, pre, detectedFaces, nextFaceId>>

EnrollSave(h) ==
    /\ reqs[h].op = "enroll" /\ reqs[h].pc = "save"
    /\ MayRun(h)
    /\ LET face == [id |-> reqs[h].faceId, label |-> reqs[h].label,
                    descriptions |-> reqs[h].out]
       IN  userDocs' = [userDocs EXCEPT ![reqs[h].doc].faces = Append(@, face)]
    /\ Respond(h, Ok("Successfully updated"))
    /\ UNCHANGED <<store, now, pre, detectedFaces, nextFaceId>>

\* ------------------------------- GET /faces (ListFaces)
FaceArray(faces) == [k \in 1..Len(faces) |-> [id |-> faces[k].id, label |-> faces[k].label]]

ListStart(h, u) ==
    /\ reqs[h].pc = "idle"
    /\ MayRun(h)
    /\ reqs' = [reqs EXCEPT ![h] =
                  [IdleReq EXCEPT !.op = "faces", !.uid = u, !.pc = "findUser"]]
    /\ UNCHANGED <<store, now, faceStore>>

ListFindUser(h) ==
    /\ reqs[h].op = "faces" /\ reqs[h].pc = "findUser"
    /\ MayRun(h)
    /\ LET i == FindOne(reqs[h].uid)
       IN  IF i = 0
           THEN reqs' = [reqs EXCEPT ![h].pc = "createUser"]
           ELSE reqs' = [reqs EXCEPT ![h].doc = i, ![h].pc = "done",
                                     ![h].out = FaceArray(userDocs[i].faces),
                                     ![h].res = Ok("faceArray")]
    /\ UNCHANGED <<store, now, pre, faceStore>>

ListCreateUser(h) ==
    /\ reqs[h].op = "faces" /\ reqs[h].pc = "createUser"
    /\ MayRun(h)
    /\ userDocs' = Insert(userDocs, NewUser(reqs[h].uid))
    /\ reqs' = [reqs EXCEPT ![h].doc = Len(userDocs) + 1, ![h].pc = "done",
                            ![h].out = FaceArray(NewUser(reqs[h].uid).faces),
                            ![h].res = Ok("faceArray")]
    /\ UNCHANGED <<store, now, pre, detectedFaces, nextFaceId>>

\* ------------------------------- POST /delete-face (DeleteFace)
\* faulty variant: the pull matches every face
Pull_All(faces, faceId) ==
    LET Keep(face) == FALSE
    IN  SelectSeq(faces, Keep)

Pull(faces, faceId) ==
    LET Keep(face) == face.id # faceId
    IN  SelectSeq(faces, Keep)

DeleteStart(h, u, faceId) ==
    /\ reqs[h].pc = "idle"
    /\ MayRun(h)
    /\ reqs' = [reqs EXCEPT ![h] =
                  [IdleReq EXCEPT !.op = "deleteFace", !.uid = u, !.faceId = faceId,
                                  !.pc = "findUser"]]
    /\ UNCHANGED <<store, now, faceStore>>

DeleteFindUser(h) ==
    /\ reqs[h].op = "deleteFace" /\ reqs[h].pc = "findUser"
    /\ MayRun(h)
    /\ LET i == FindOne(reqs[h].uid)
       IN  IF i = 0
           THEN Respond(h, ExpressError("No user found.", 401))
           ELSE reqs' = [reqs EXCEPT ![h].doc = i, ![h].pc = "pull"]
    /\ UNCHANGED <<store, now, pre, faceStore>>

DeletePull(h) ==
    /\ reqs[h].op = "deleteFace" /\ reqs[h].pc = "pull"
    /\ MayRun(h)
    /\ userDocs' = [userDocs EXCEPT ![reqs[h].doc].faces = Pull(@, reqs[h].faceId)]
    /\ Respond(h, Ok("Successfully deleted"))
    /\ UNCHANGED <<store, now, pre, detectedFaces, nextFaceId>>

\* ----------------------------------------------------- response delivered
Finish(h) ==
    /\ reqs[h].pc = "done"
    /\ MayRun(h)
    /\ reqs' = [reqs EXCEPT ![h] = IdleReq]
    /\ pre' = EmptyStore
    /\ UNCHANGED <<store, now, faceStore>>

\* -------------------------------------------------------- specifications
Quiescent == \A h \in Handlers : reqs[h].pc \in {"idle", "done"}

\* a request arrives while no other is in service
Arrival ==
    /\ \A h \in Handlers : reqs[h].pc = "idle"
    /\ pre' = Snapshot

\* requests served one at a time, each to completion
Next ==
    \/ \E h \in Handlers, u \in Users, nd \in NewDeviceIds :
          Arrival /\ RebindStart(h, u, nd)
    \/ \E h \in Handlers, d \in QueryIds :
          Arrival /\ SetLocationRequestStart(h, d)
    \/ \E h \in Handlers, u \in Users, lat \in Lats, lng \in Lngs :
          Arrival /\ LocationStart(h, u, lat, lng)
    \/ \E h \in Handlers : RebindIsOwned(h)
    \/ \E h \in Handlers : RebindOlderDeviceId(h)
    \/ \E h \in Handlers : RebindClearOld(h)
    \/ \E h \in Handlers : RebindSetForward(h)
    \/ \E h \in Handlers : RebindSetReverse(h)
    \/ \E h \in Handlers : SetLocationRequestFetchUserId(h)
    \/ \E h \in Handlers : LocationFetchDeviceId(h)
    \/ \E h \in Handlers : LocationPush(h)
    \/ \E h \in Handlers : LocationRemoveRequest(h)
    \/ \E h \in Handlers : Finish(h)

Spec == Init /\ [][Next]_vars

\* rebind requests in flight together, interleaved at their awaits
NextRebind ==
    \/ \E h \in Handlers, u \in Users, nd \in NewDeviceIds :
          RebindStart(h, u, nd) /\ UNCHANGED pre
    \/ \E h \in Handlers : RebindIsOwned(h)
    \/ \E h \in Handlers : RebindOlderDeviceId(h)
    \/ \E h \in Handlers : RebindClearOld(h)
    \/ \E h \in Handlers : RebindSetForward(h)
    \/ \E h \in Handlers : RebindSetReverse(h)
    \/ \E h \in Handlers : Finish(h)

SpecRebind == Init /\ [][NextRebind]_vars

\* the slot that serves when requests are served one at a time
Front == CHOOSE h \in Handlers : \A g \in Handlers : h <= g

\* face requests served one at a time, each to completion, with the rebinds
\* that give a device its user
NextFaces ==
    \/ \E u \in Users, nd \in {"AB12CD"} : Arrival /\ RebindStart(Front, u, nd)
    \/ \E u \in Users : Arrival /\ ResetDetectedFaces(Front, u)
    \/ \E d \in {"AB12CD", "XY34ZW"}, probe \in {p \in Probes : Len(p) <= 1} :
          Arrival /\ RecogniseStart(Front, d, probe)
    \/ \E u \in Users, label \in Labels, images \in Samples :
          Arrival /\ EnrollStart(Front, u, label, images)
    \/ \E u \in Users : Arrival /\ ListStart(Front, u)
    \/ \E u \in Users, faceId \in 1..MaxFaces : Arrival /\ DeleteStart(Front, u, faceId)
    \/ \E h \in Handlers : RebindIsOwned(h)
    \/ \E h \in Handlers : RebindOlderDeviceId(h)
    \/ \E h \in Handlers : RebindSetForward(h)
    \/ \E h \in Handlers : RebindSetReverse(h)
    \/ \E h \in Handlers : RecogniseFetchUserId(h)
    \/ \E h \in Handlers : RecogniseFindUser(h)
    \/ \E h \in Handlers : RecogniseSetDetectedFaces(h)
    \/ \E h \in Handlers : EnrollFindUser(h)
    \/ \E h \in Handlers : EnrollCreateUser(h)
    \/ \E h \in Handlers : EnrollDetect(h)
    \/ \E h \in Handlers : EnrollSave(h)
    \/ \E h \in Handlers : ListFindUser(h)
    \/ \E h \in Handlers : ListCreateUser(h)
    \/ \E h \in Handlers : DeleteFindUser(h)
    \/ \E h \in Handlers : DeletePull(h)
    \/ \E h \in Handlers : Finish(h)

SpecFaces == Init /\ [][NextFaces]_vars

\* the stores recognition is served on: user1 holds device AB12CD and has
\* enrolled one or two faces, each with three descriptors
Descriptions == { <<0, 0, 0>>, <<6, 6, 6>>, <<0, 0, 21>> }

Template(id, label, descriptions) ==
    [id |-> id, label |-> label, descriptions |-> descriptions]

EnrolledSets ==
    { <<Template(1, l, d)>> : l \in Labels, d \in Descriptions }
    \cup { <<Template(1, t[1], t[2]), Template(2, t[3], t[4])>> :
              t \in Labels \X Descriptions \X Labels \X Descriptions }

InitRecognise ==
    \E faces \in EnrolledSets :
        /\ deviceUser = [EmptyStore.deviceUser EXCEPT !["AB12CD"] = "user1"]
        /\ userDevice = [EmptyStore.userDevice EXCEPT !["user1"] = "AB12CD"]
        /\ locationRequest = EmptyStore.locationRequest
        /\ devices = EmptyStore.devices
        /\ now = 0
        /\ reqs = [h \in Handlers |-> IdleReq]
        /\ pre = EmptyStore
        /\ detectedFaces = EmptyStore.detectedFaces
        /\ userDocs = <<[userId |-> "user1", faces |-> faces]>>
        /\ nextFaceId = Len(faces) + 1

\* recognition requests in flight together, interleaved at their awaits
NextRecognise ==
    \/ \E h \in Handlers, probe \in Probes :
          RecogniseStart(h, "AB12CD", probe) /\ UNCHANGED pre
    \/ \E h \in Handlers : RecogniseFetchUserId(h)
    \/ \E h \in Handlers : RecogniseFindUser(h)
    \/ \E h \in Handlers : RecogniseSetDetectedFaces(h)
    \/ \E h \in Handlers : Finish(h)

SpecRecognise == InitRecognise /\ [][NextRecognise]_vars

\* enrolment and listing requests of one user in flight together,
\* interleaved at their awaits
NextEnroll ==
    \/ \E h \in Handlers, label \in Labels, images \in Samples :
          EnrollStart(h, "user1", label, images) /\ UNCHANGED pre
    \/ \E h \in Handlers : ListStart(h, "user1") /\ UNCHANGED pre
    \/ \E h \in Handlers : EnrollFindUser(h)
    \/ \E h \in Handlers : EnrollCreateUser(h)
    \/ \E h \in Handlers : EnrollDetect(h)
    \/ \E h \in Handlers : EnrollSave(h)
    \/ \E h \in Handlers : ListFindUser(h)
    \/ \E h \in Handlers : ListCreateUser(h)
    \/ \E h \in Handlers : Finish(h)

SpecEnroll == Init /\ [][NextEnroll]_vars

\* requests of every route served one at a time, each to completion
NextAll ==
    \/ \E u \in Users, nd \in {"AB12CD", "XY34ZW"} : Arrival /\ RebindStart(Front, u, nd)
    \/ \E d \in {"AB12CD", "XY34ZW"} : Arrival /\ SetLocationRequestStart(Front, d)
    \/ \E u \in Users : Arrival /\ LocationStart(Front, u, 41, 29)
    \/ \E u \in Users : Arrival /\ ResetDetectedFaces(Front, u)
    \/ Arrival /\ RecogniseStart(Front, "AB12CD", <<0>>)
    \/ \E images \in Samples : Arrival /\ EnrollStart(Front, "user1", "Alice", images)
    \/ \E u \in Users : Arrival /\ ListStart(Front, u)
    \/ \E faceId \in 1..MaxFaces : Arrival /\ DeleteStart(Front, "user1", faceId)
    \/ \E h \in Handlers : RebindIsOwned(h)
    \/ \E h \in Handlers : RebindOlderDeviceId(h)
    \/ \E h \in Handlers : RebindClearOld(h)
    \/ \E h \in Handlers : RebindSetForward(h)
    \/ \E h \in Handlers : RebindSetReverse(h)
    \/ \E h \in Handlers : SetLocationRequestFetchUserId(h)
    \/ \E h \in Handlers : LocationFetchDeviceId(h)
    \/ \E h \in Handlers : LocationPush(h)
    \/ \E h \in Handlers : LocationRemoveRequest(h)
    \/ \E h \in Handlers : RecogniseFetchUserId(h)
    \/ \E h \in Handlers : RecogniseFindUser(h)
    \/ \E h \in Handlers : RecogniseSetDetectedFaces(h)
    \/ \E h \in Handlers : EnrollFindUser(h)
    \/ \E h \in Handlers : EnrollCreateUser(h)
    \/ \E h \in Handlers : EnrollDetect(h)
    \/ \E h \in Handlers : EnrollSave(h)
    \/ \E h \in Handlers : ListFindUser(h)
    \/ \E h \in Handlers : ListCreateUser(h)
    \/ \E h \in Handlers : DeleteFindUser(h)
    \/ \E h \in Handlers : DeletePull(h)
    \/ \E h \in Handlers : Finish(h)

SpecAll == Init /\ [][NextAll]_vars

\* ------------------------------------------------------------ properties
Served(h, op) == reqs[h].op = op /\ reqs[h].pc # "idle"

Done(h, op) == reqs[h].op = op /\ reqs[h].pc = "done"

StoreIntact == Snapshot = pre

Bijection ==
    /\ \A u \in Users :
          Exists(userDevice[u]) => DeviceUserAt(userDevice[u]) = u
    /\ \A d \in ValidIds :
          Exists(deviceUser[d]) => userDevice[deviceUser[d]] = d

NoDoubleBinding ==
    /\ \A d1, d2 \in ValidIds :
          (d1 # d2 /\ Exists(deviceUser[d1])) => deviceUser[d1] # deviceUser[d2]
    /\ \A u1, u2 \in Users :
          (u1 # u2 /\ Exists(userDevice[u1])) => userDevice[u1] # userDevice[u2]

NoStaleReverse ==
    \A d \in ValidIds : Exists(deviceUser[d]) => userDevice[deviceUser[d]] = d

\* C1: with rebind requests served one after another (valid or not, accepted
\* or refused), whenever no request is in progress every forward binding
\* users/u/deviceId = d has the reverse binding device-user/d = u, and every
\* reverse binding device-user/d = u has the forward binding users/u/deviceId = d.
C1_BijectionAtQuiescence == Quiescent => Bijection

C1_Witness ==
    \E h \in Handlers :
        /\ Done(h, "rebind") /\ reqs[h].res.status = 200 /\ Exists(reqs[h].val)
        /\ \A u \in Users : Exists(userDevice[u])

\* C2: two rebind requests of different users for the same well-formed device
\* id, both arrived while the device had no owner, never both succeed: once
\* both have answered, exactly one answered 200 and the other 409 (Conflict).
C2_RebindAtomicity ==
    \A g, h \in Handlers :
        (/\ g # h
         /\ Done(g, "rebind") /\ Done(h, "rebind")
         /\ reqs[g].deviceId = reqs[h].deviceId
         /\ reqs[g].deviceId \in ValidIds
         /\ reqs[g].uid # reqs[h].uid
         /\ reqs[g].wasFree /\ reqs[h].wasFree)
        => \/ reqs[g].res.status = 200 /\ reqs[h].res.status = 409
           \/ reqs[g].res.status = 409 /\ reqs[h].res.status = 200

\* C3: with rebind requests in flight together, once all of them have finished
\* no user is the reverse binding of two devices, no device is the forward
\* binding of two users, and no reverse pointer device-user/d = u survives
\* with users/u/deviceId # d.
C3_NoCorruptionAfterRace == Quiescent => (NoDoubleBinding /\ NoStaleReverse)

\* C4: a rebind request for a device id that another user owns answers 409
\* (Conflict) and writes nothing: the store stays as it was when the request
\* arrived, the owner's two bindings and the caller's own bindings included.
C4_ConflictLeavesState ==
    \A h \in Handlers :
        (/\ Served(h, "rebind")
         /\ reqs[h].deviceId \in ValidIds
         /\ Exists(pre.deviceUser[reqs[h].deviceId])
         /\ pre.deviceUser[reqs[h].deviceId] # reqs[h].uid)
        => /\ StoreIntact
           /\ reqs[h].pc \in {"isOwned", "done"}
           /\ reqs[h].pc = "done" => reqs[h].res.status = 409

C4_Witness ==
    \E h \in Handlers :
        /\ Done(h, "rebind") /\ reqs[h].res.status = 409
        /\ pre.deviceUser[reqs[h].deviceId] # reqs[h].uid
        /\ Exists(userDevice[reqs[h].uid])

\* C5: a rebind request that succeeds for a user bound to an old device id
\* other than the new one leaves users/u/deviceId = new, device-user/new = u,
\* device-user/old cleared, and every other binding as it was.
C5_RebindMovesBinding ==
    \A h \in Handlers :
        (/\ Done(h, "rebind") /\ reqs[h].res.status = 200
         /\ Exists(pre.userDevice[reqs[h].uid])
         /\ pre.userDevice[reqs[h].uid] # reqs[h].deviceId)
        => /\ userDevice = [pre.userDevice EXCEPT ![reqs[h].uid] = reqs[h].deviceId]
           /\ deviceUser = [pre.deviceUser EXCEPT
                               ![pre.userDevice[reqs[h].uid]] = Null,
                               ![reqs[h].deviceId] = reqs[h].uid]
           /\ DeviceUserAt(pre.userDevice[reqs[h].uid]) = Null

C5_Witness ==
    \E h \in Handlers :
        /\ Done(h, "rebind") /\ reqs[h].res.status = 200
        /\ Exists(pre.userDevice[reqs[h].uid])
        /\ \E u \in Users \ {reqs[h].uid} : Exists(userDevice[u])

\* C6: with one request in service at a time, every state of the store, the
\* states between the writes of a rebind included, shows no user as the
\* reverse binding of two devices and no device as the forward binding of
\* two users.
C6_NoDoubleBindingObserved == NoDoubleBinding

C6_Witness ==
    \E h \in Handlers :
        /\ reqs[h].op = "rebind" /\ reqs[h].pc = "setReverse"
        /\ Exists(reqs[h].val)
        /\ \E u \in Users \ {reqs[h].uid} : Exists(userDevice[u])

\* C7: a rebind request whose device id is not exactly 6 characters long is
\* answered at once with the length error, without a read or a write of the
\* store: every binding stays as it was.
C7_BadLengthRejected ==
    \A h \in Handlers :
        (Served(h, "rebind") /\ Len(reqs[h].deviceId) # 6)
        => /\ reqs[h].pc = "done"
           /\ reqs[h].res.message = "Device id must be 6 characters!"
           /\ reqs[h].res.status # 200
           /\ StoreIntact

C7_Witness ==
    \E h \in Handlers :
        /\ Done(h, "rebind") /\ Len(reqs[h].deviceId) = 7
        /\ \E u \in Users : Exists(userDevice[u])

\* C8: a location request for a device id that has no reverse binding sets
\* no flag and changes nothing in the store; for a supplied device id it
\* answers 404 (NotFound), for an empty one it is refused before the lookup.
C8_UnboundRequestRefused ==
    \A h \in Handlers :
        (/\ Served(h, "setLocationRequest")
         /\ (reqs[h].deviceId \in ValidIds => ~Exists(pre.deviceUser[reqs[h].deviceId])))
        => /\ StoreIntact
           /\ reqs[h].pc = "done" => reqs[h].res.status # 200
           /\ (reqs[h].pc = "done" /\ reqs[h].deviceId # "") => reqs[h].res.status = 404

C8_Witness ==
    \E h \in Handlers :
        /\ Done(h, "setLocationRequest") /\ reqs[h].res.status = 404
        /\ reqs[h].deviceId \in ValidIds
        /\ devices[reqs[h].deviceId] # <<>>
        /\ \E u \in Users : Exists(userDevice[u])

\* C9: a location report that succeeds has appended exactly one report
\* {lat, lng, time} at the end of the list of the device bound to the user,
\* with a time no earlier than the reports before it, has left every earlier
\* report of every device in place, and has cleared the user's request flag.
C9_ReportAppendsAndClears ==
    \A h \in Handlers :
        (Done(h, "location") /\ reqs[h].res.status = 200)
        => LET d == userDevice[reqs[h].uid]
               location == [lat |-> reqs[h].lat, lng |-> reqs[h].lng,
                            time |-> reqs[h].time]
           IN  /\ Exists(d)
               /\ devices = [pre.devices EXCEPT ![d] = Append(@, location)]
               /\ \A i \in 1..Len(devices[d]) : devices[d][i].time <= location.time
               /\ locationRequest = [pre.locationRequest EXCEPT ![reqs[h].uid] = Null]
               /\ userDevice = pre.userDevice /\ deviceUser = pre.deviceUser

C9_Witness ==
    \E h \in Handlers :
        /\ Done(h, "location") /\ reqs[h].res.status = 200
        /\ Len(devices[userDevice[reqs[h].uid]]) >= 2
        /\ pre.locationRequest[reqs[h].uid] = True

\* C10: a location report by a user without a forward binding answers 404
\* (NotFound), appends no report and leaves the request flags as they were.
C10_UnboundReportRefused ==
    \A h \in Handlers :
        (Served(h, "location") /\ ~Exists(pre.userDevice[reqs[h].uid]))
        => /\ StoreIntact
           /\ reqs[h].pc \in {"fetchDeviceId", "done"}
           /\ reqs[h].pc = "done" => reqs[h].res.status = 404

C10_Witness ==
    \E h \in Handlers :
        /\ Done(h, "location") /\ reqs[h].res.status = 404
        /\ \E d \in ValidIds : devices[d] # <<>>
        /\ \E u \in Users : locationRequest[u] = True

\* C12: a location request that succeeds changes nothing but the flag of the
\* device's user, which it sets to true; so a second request for the same
\* device, served right after a first one, leaves the whole store (flags,
\* bindings, report lists) exactly as the first one left it.
C12_RequestIdempotent ==
    \A h \in Handlers :
        (Done(h, "setLocationRequest") /\ reqs[h].res.status = 200)
        => /\ locationRequest = [pre.locationRequest EXCEPT ![reqs[h].val] = True]
           /\ Snapshot = [pre EXCEPT !.locationRequest = locationRequest]
           /\ pre.locationRequest[reqs[h].val] = True => StoreIntact

C12_Witness ==
    \E h \in Handlers :
        /\ Done(h, "setLocationRequest") /\ reqs[h].res.status = 200
        /\ pre.locationRequest[reqs[h].val] = True
        /\ \E u \in Users \ {reqs[h].val} : locationRequest[u] # True

\* the record findOne gives for a user in a collection, 0 when there is none,
\* and the templates that record holds
RecordOf(docs, userId) ==
    IF \E i \in 1..Len(docs) : docs[i].userId = userId
    THEN CHOOSE i \in 1..Len(docs) :
            /\ docs[i].userId = userId
            /\ \A j \in 1..(i - 1) : docs[j].userId # userId
    ELSE 0

TemplatesOf(docs, userId) ==
    IF RecordOf(docs, userId) = 0 THEN <<>> ELSE docs[RecordOf(docs, userId)].faces

\* C13: a recognition request for a device whose user has no enrolled
\* template when the request arrives (no record, a record created empty by
\* GET /faces, or a record emptied by POST /delete-face) is answered 401
\* (Unauthorized) or 404 (NotFound), and the user's detectedFaces stay as they
\* were.
C13_NoTemplatesRefused ==
    \A h \in Handlers :
        (/\ Done(h, "recognise")
         /\ Exists(pre.deviceUser[reqs[h].deviceId])
         /\ TemplatesOf(pre.userDocs, pre.deviceUser[reqs[h].deviceId]) = <<>>)
        => /\ reqs[h].res.status \in {401, 404}
           /\ detectedFaces = pre.detectedFaces

\* distances from a probe descriptor q to the descriptors of a template
Distance(face, k, q) ==
    IF face.descriptions[k] >= q THEN face.descriptions[k] - q
    ELSE q - face.descriptions[k]

RECURSIVE DistanceUpTo(_, _, _)
DistanceUpTo(face, k, q) ==
    IF k = 0 THEN 0 ELSE Distance(face, k, q) + DistanceUpTo(face, k - 1, q)

TotalDistance(face, q) == DistanceUpTo(face, Len(face.descriptions), q)

\* mean distance of template a to q is at most that of template b
MeanAtMost(a, b, q) ==
    TotalDistance(a, q) * Len(b.descriptions) <= TotalDistance(b, q) * Len(a.descriptions)

\* the smallest distance from q to any descriptor of any template
MinDistance(faces, q) ==
    LET all == { Distance(faces[i], k, q) :
                    i \in 1..Len(faces), k \in 1..Len(faces[1].descriptions) }
    IN  CHOOSE m \in all : \A x \in all : m <= x

\* the label the claim as stated expects: a template owning a descriptor at
\* the smallest distance, unknown when that distance is above the threshold
NearestEmbeddingLabels(faces, q) ==
    IF MinDistance(faces, q) > DistanceThreshold THEN {Unknown}
    ELSE { faces[i].label : i \in { j \in 1..Len(faces) :
              \E k \in 1..Len(faces[j].descriptions) :
                 Distance(faces[j], k, q) = MinDistance(faces, q) } }

\* the label of the last template among those of smallest mean distance,
\* unknown unless that mean is below the threshold
NearestMeanLabel(faces, q) ==
    LET best == CHOOSE i \in 1..Len(faces) :
                   /\ \A j \in 1..Len(faces) : MeanAtMost(faces[i], faces[j], q)
                   /\ \A j \in (i + 1)..Len(faces) : ~MeanAtMost(faces[j], faces[i], q)
    IN  IF TotalDistance(faces[best], q) < DistanceThreshold * Len(faces[best].descriptions)
        THEN faces[best].label ELSE Unknown

Recognised(h) == Done(h, "recognise") /\ reqs[h].res.status = 200

ResultLabels(faces, probe) ==
    [k \in 1..Len(probe) |-> NearestMeanLabel(faces, probe[k])]

\* handler h answers a recognition with 200 in this step
Succeeds(h) ==
    /\ reqs[h].op = "recognise" /\ reqs[h].pc # "done"
    /\ reqs'[h].pc = "done" /\ reqs'[h].res.status = 200

\* C15: the step in which a recognition succeeds leaves the user's
\* detectedFaces equal to exactly the list of its result labels, one per
\* detected face in detection order, whatever the value before and also when
\* the list is empty; and with recognitions in flight together every change
\* of a user's detectedFaces installs the complete list of one recognition
\* for that user, so the final value is never a mixture of two lists.
C15_LastWriteWins ==
    [][ /\ \A h \in Handlers :
              Succeeds(h)
              => detectedFaces'[reqs[h].val] =
                    ResultLabels(TemplatesOf(userDocs, reqs[h].val), reqs[h].images)
        /\ \A u \in Users :
              detectedFaces'[u] # detectedFaces[u]
              => \E h \in Handlers :
                    /\ Succeeds(h) /\ reqs[h].val = u
                    /\ detectedFaces'[u] =
                          ResultLabels(TemplatesOf(userDocs, u), reqs[h].images) ]_vars

\* two recognitions for one user have both succeeded, the one with two
\* labels first and the one with none last, which emptied detectedFaces
C15_Witness ==
    \E g, h \in Handlers :
        /\ Recognised(g) /\ Recognised(h) /\ reqs[g].val = reqs[h].val
        /\ Len(reqs[g].out) > 1 /\ reqs[h].out = <<>>
        /\ detectedFaces[reqs[h].val] = <<>>

\* what GET /faces would list for a user in a collection, and the ids in use
Listing(docs, userId) ==
    [k \in 1..Len(TemplatesOf(docs, userId)) |->
        [id |-> TemplatesOf(docs, userId)[k].id,
         label |-> TemplatesOf(docs, userId)[k].label]]

IdsOf(list) == { list[k].id : k \in 1..Len(list) }

AllIds(docs) == UNION { IdsOf(docs[i].faces) : i \in 1..Len(docs) }

\* a listing without its entry of the given id, the others in their order
Without(list, id) ==
    IF id \in IdsOf(list)
    THEN LET p == CHOOSE k \in 1..Len(list) : list[k].id = id
         IN  SubSeq(list, 1, p - 1) \o SubSeq(list, p + 1, Len(list))
    ELSE list

\* C16: a successful enrolment adds to what GET /faces lists for the user one
\* entry with the given label and an id no template had, after the entries
\* listed before; GET /faces answers exactly the user's listing and leaves it
\* as it was; and a successful delete leaves the listing without the entry of
\* that id, every other entry listed exactly as before.
C16_EnrollListDeleteRoundTrip ==
    \A h \in Handlers :
        LET was == Listing(pre.userDocs, reqs[h].uid)
            is  == Listing(userDocs, reqs[h].uid)
        IN  /\ (Done(h, "enroll") /\ reqs[h].res.status = 200)
               => /\ Len(is) = Len(was) + 1
                  /\ SubSeq(is, 1, Len(was)) = was
                  /\ is[Len(is)].label = reqs[h].label
                  /\ is[Len(is)].id \notin AllIds(pre.userDocs)
            /\ Done(h, "faces")
               => /\ reqs[h].res.status = 200
                  /\ reqs[h].out = was
                  /\ is = was
            /\ (Done(h, "deleteFace") /\ reqs[h].res.status = 200)
               => /\ reqs[h].faceId \notin IdsOf(is)
                  /\ is = Without(was, reqs[h].faceId)

\* a delete has removed one of two enrolled templates of a user and the
\* other is still listed
C16_Witness ==
    \E h \in Handlers :
        /\ Done(h, "deleteFace") /\ reqs[h].res.status = 200
        /\ reqs[h].faceId \in IdsOf(Listing(pre.userDocs, reqs[h].uid))
        /\ Len(Listing(userDocs, reqs[h].uid)) > 0

\* C17: a delete request of a user without a record is refused with the
\* error "No user found." and changes nothing; of a user with a record it is
\* answered 200 and leaves the user's templates without the one whose id is
\* faceId, the others as they were, so nothing changes when no template has
\* that id; the templates of other users and the rest of the store stay as
\* they were.
C17_DeleteRemovesExactlyOne ==
    \A h \in Handlers :
        Done(h, "deleteFace")
        => LET u   == reqs[h].uid
               was == TemplatesOf(pre.userDocs, u)
           IN  IF RecordOf(pre.userDocs, u) = 0
               THEN /\ reqs[h].res = ExpressError("No user found.", 401)
                    /\ StoreIntact
               ELSE /\ reqs[h].res.status = 200
                    /\ TemplatesOf(userDocs, u) = Without(was, reqs[h].faceId)
                    /\ reqs[h].faceId \notin IdsOf(was) => StoreIntact
                    /\ \A v \in Users \ {u} :
                          TemplatesOf(userDocs, v) = TemplatesOf(pre.userDocs, v)
                    /\ Snapshot = [pre EXCEPT !.userDocs = userDocs]

\* a delete has removed a template of one user while another user holds a
\* template
C17_Witness ==
    \E h \in Handlers :
        /\ Done(h, "deleteFace") /\ reqs[h].res.status = 200
        /\ reqs[h].faceId \in IdsOf(TemplatesOf(pre.userDocs, reqs[h].uid))
        /\ \E v \in Users \ {reqs[h].uid} : TemplatesOf(userDocs, v) # <<>>

\* the descriptors of the sample images in which a face is detected, in
\* input order
Detected(images) ==
    LET Found(image) == image # <<>>
        found == SelectSeq(images, Found)
    IN  [k \in 1..Len(found) |-> Head(found[k])]

\* C18: an enrolment request with a sample image in which no face is
\* detected is answered 200 and appends to the user's templates one template
\* with the given label whose descriptors are exactly those of the samples
\* in which a face was detected, in input order.
C18_ZeroDetectionSkipped ==
    \A h \in Handlers :
        (/\ Done(h, "enroll")
         /\ \E k \in 1..Len(reqs[h].images) : reqs[h].images[k] = <<>>)
        => LET was == TemplatesOf(pre.userDocs, reqs[h].uid)
               is  == TemplatesOf(userDocs, reqs[h].uid)
           IN  /\ reqs[h].res.status = 200
               /\ Len(is) = Len(was) + 1
               /\ SubSeq(is, 1, Len(was)) = was
               /\ is[Len(is)].label = reqs[h].label
               /\ is[Len(is)].descriptions = Detected(reqs[h].images)

\* C19: with enrolment and listing requests in flight together the
\* collection never holds two records of one userId, so every template
\* stored for a user is in the record findOne gives for that user.
C19_OneRecordPerUser ==
    /\ \A i, j \in 1..Len(userDocs) :
          userDocs[i].userId = userDocs[j].userId => i = j
    /\ \A i \in 1..Len(userDocs) :
          IdsOf(userDocs[i].faces)
             \subseteq IdsOf(TemplatesOf(userDocs, userDocs[i].userId))

\* C20: a rebind request for the device id the caller itself already owns
\* is answered 409 (Conflict) and writes nothing, so both mappings stay as
\* they were; and a rebind request is answered 200 only if the target device
\* id had no owner when the request was served.
C20_OwnDeviceRejected ==
    \A h \in Handlers :
        (Served(h, "rebind") /\ reqs[h].deviceId \in ValidIds)
        => /\ pre.deviceUser[reqs[h].deviceId] = reqs[h].uid
              => /\ StoreIntact
                 /\ reqs[h].pc \in {"isOwned", "done"}
                 /\ reqs[h].pc = "done"
                       => reqs[h].res = ExpressError("This id is already owned!", 409)
           /\ (reqs[h].pc = "done" /\ reqs[h].res.status = 200)
              => ~Exists(pre.deviceUser[reqs[h].deviceId])

\* a user bound to a device has asked for that same device and got 409
C20_Witness ==
    \E h \in Handlers :
        /\ Done(h, "rebind") /\ reqs[h].res.status = 409
        /\ pre.deviceUser[reqs[h].deviceId] = reqs[h].uid
        /\ userDevice[reqs[h].uid] = reqs[h].deviceId

\* C11 as stated: while a request is served, the location request flag of a
\* user that was set when the request arrived is still set unless the
\* request is a location report or a reset call of that user, and a reset
\* call of that user has removed it.
C11_FlagHeldUntilReportOrReset ==
    \A h \in Handlers, u \in Users :
        (reqs[h].pc # "idle" /\ pre.locationRequest[u] = True)
        => /\ (reqs[h].op \notin {"location", "resetDetectedFaces"} \/ reqs[h].uid # u)
                 => locationRequest[u] = True
           /\ (Done(h, "resetDetectedFaces") /\ reqs[h].uid = u)
                 => locationRequest[u] = Null

\* C11 amended: a user's location request flag is changed only by a location
\* request for a device of that user, which sets it, and by a location
\* report of that user, which removes it; so a flag once set stays set
\* through every rebind, recognition, enrolment, listing, delete and
\* reset-detected-faces request, and there is no request that resets it.
C11_FlagHeldUntilReport ==
    \A h \in Handlers, u \in Users :
        (reqs[h].pc # "idle" /\ locationRequest[u] # pre.locationRequest[u])
        => \/ /\ reqs[h].op = "setLocationRequest" /\ reqs[h].val = u
              /\ locationRequest[u] = True
           \/ /\ reqs[h].op = "location" /\ reqs[h].uid = u
              /\ locationRequest[u] = Null

\* a reset-detected-faces request of a user whose flag was set has been
\* answered and the flag is still set
C11_Witness ==
    \E h \in Handlers :
        /\ Done(h, "resetDetectedFaces")
        /\ pre.locationRequest[reqs[h].uid] = True
        /\ locationRequest[reqs[h].uid] = True
        /\ pre.detectedFaces[reqs[h].uid] # <<>>
====
